---- MODULE Spec2Model ----
(***************************************************************************)
(* Tame: the limiter control loop (VolumeLimiter._run), the audio device   *)
(* wrapper (AudioController) and the GUI handlers that touch the limiter.  *)
(*                                                                         *)
(* Units.  Volumes and peaks are fixed point in thousandths (1.0 = 1000).  *)
(* Times are integer milliseconds.  Products of two volumes are in         *)
(* millionths.  Every quotient is rounded down to the grid.                *)
(*                                                                         *)
(* Clock.  Only differences of time.time() values are ever used, so the    *)
(* clock is re-based at every loop iteration: the iteration runs at        *)
(* now = 0 and every stored timestamp is the (non-positive) offset from    *)
(* it.  A timestamp older than MaxAge is kept at -MaxAge; MaxAge is above  *)
(* every time the tunables are compared with, so no test changes.          *)
(***************************************************************************)
EXTENDS Integers, Sequences, FiniteSets, TLC

VARIABLES
    dev_volume,               \* the endpoint's master volume scalar
    cached_volume,            \* AudioController._cached_volume
    last_set_volume,          \* AudioController._last_set_volume
    user_set_time,            \* AudioController.user_set_time (NoTime = None)
    user_set_volume,          \* AudioController.user_set_volume
    is_running,               \* VolumeLimiter.is_running (the enable flag)
    stop,                     \* VolumeLimiter._stop (threading.Event)
    pc,                       \* the limiter thread: "loop" or "done"
    last_time,                \* _run's local last_time
    original_volume,
    is_limiting,
    last_over_threshold_time,
    time_over_threshold,
    ui_peak,
    ui_volume,
    cfg,                      \* the tunable fields of VolumeLimiter
    release_rate,             \* VolumeLimiter.release_rate, <<thousandths, ms>>
    ev,                       \* history: what the last loop iteration did
    quiet_time,               \* history: when the signal was last under threshold
    snap                      \* history: the controller state at the last disabling

vars == <<dev_volume, cached_volume, last_set_volume, user_set_time,
          user_set_volume, is_running, stop, pc, last_time, original_volume,
          is_limiting, last_over_threshold_time, time_over_threshold,
          ui_peak, ui_volume, cfg, release_rate,
          ev, quiet_time, snap>>

audio_vars == <<cached_volume, last_set_volume, user_set_time, user_set_volume>>
state_vars == <<original_volume, is_limiting, last_over_threshold_time,
                time_over_threshold>>
ui_vars == <<ui_peak, ui_volume>>

----------------------------------------------------------------------------
(* Program constants *)

FullScale == 1000          \* 1.0
MinTarget == 10            \* the 0.01 floor of target_volume
NoiseThreshold == 10       \* the 0.01 of check_user_changed
NormalizeFloor == 10       \* the 0.01 of get_raw_peak
NegligiblePeak == 1        \* the 0.001 of the threshold test
ReleaseEpsilon == 5        \* the 0.005 of the release test
InstantDampening == 1      \* the 0.001 s of the dampening ramp test
FastReleaseRate == 10      \* 10.0 per second = 10 thousandths per ms
TickSleep == 20            \* time.sleep(0.02)
PausedSleep == 50          \* time.sleep(0.05)
NoTime == 1                \* user_set_time = None (no timestamp is positive)
now == 0                   \* time.time() at the top of an iteration
Failed == -1               \* a device call that raised

(* Bounds of the model *)

MaxAge == 80              \* timestamps and accumulated times saturate here

----------------------------------------------------------------------------
(* Arithmetic helpers *)

Min(a, b) == IF a <= b THEN a ELSE b
Max(a, b) == IF a >= b THEN a ELSE b
Abs(a) == IF a >= 0 THEN a ELSE 0 - a

(* <<q, r>> with a*b = q*c + r and 0 <= r < c, without forming a*b: from  *)
(* h, the same for a * (b \div 2)                                          *)
Doubled(h, a, b, c) ==
    LET add == IF b % 2 = 1 THEN a ELSE 0
        t == 2 * h[2] + (add % c)
    IN  <<2 * h[1] + (add \div c) + (t \div c), t % c>>

RECURSIVE MulDivQR(_, _, _)
MulDivQR(a, b, c) ==
    IF b = 0 THEN <<0, 0>>
    ELSE CHOOSE r \in {Doubled(h, a, b, c) : h \in {MulDivQR(a, b \div 2, c)}} :
             TRUE

(* the timestamp t as seen d ms later *)
Age(t, d) == IF t = NoTime THEN NoTime ELSE Max(t - d, 0 - MaxAge)

----------------------------------------------------------------------------
(* AudioController.  a is the record [dev, cached, last_set, ust, usv]:    *)
(* the endpoint's volume and the four fields of the wrapper.  A device     *)
(* call that raises is the input Failed (meter) or ok = FALSE (volume).    *)

(* get_raw_peak answering full scale when GetPeakValue() raises *)
GetRawPeak_FailsLoud(peak, vol) ==
    IF peak = Failed THEN FullScale
    ELSE IF vol > NormalizeFloor
         THEN Min(FullScale, (peak * FullScale) \div vol)
         ELSE peak

(* get_raw_peak: peak is GetPeakValue()'s result *)
GetRawPeak(peak, vol) ==
    IF peak = Failed THEN 0
    ELSE IF vol > NormalizeFloor
         THEN Min(FullScale, (peak * FullScale) \div vol)
         ELSE peak

(* get_volume: refreshes the cache on success, returns the cache *)
GetVolume(a, ok) == IF ok THEN [a EXCEPT !.cached = a.dev] ELSE a

(* set_volume forgetting what it wrote *)
SetVolume_Unrecorded(a, level, ok) ==
    LET lv == Max(0, Min(FullScale, level))
    IN  IF ok THEN [a EXCEPT !.dev = lv, !.cached = lv] ELSE a

(* set_volume moving the endpoint half of the way to the level *)
SetVolume_Halfway(a, level, ok) ==
    LET lv == (a.dev + Max(0, Min(FullScale, level))) \div 2
    IN  IF ok THEN [a EXCEPT !.dev = lv, !.last_set = lv, !.cached = lv]
        ELSE a

(* set_volume: clamps, writes the endpoint, records what it wrote *)
SetVolume(a, level, ok) ==
    LET lv == Max(0, Min(FullScale, level))
    IN  IF ok THEN [a EXCEPT !.dev = lv, !.last_set = lv, !.cached = lv]
        ELSE a

(* check_user_changed without the time stamp of line 212 *)
CheckUserChanged_NoStamp(a, ok, t) ==
    LET a1 == GetVolume(a, ok)
        current == a1.cached
    IN  IF Abs(current - a1.last_set) > NoiseThreshold
        THEN <<[a1 EXCEPT !.usv = current, !.last_set = current], TRUE>>
        ELSE <<a1, FALSE>>

(* check_user_changed at time t: <<a', changed>> *)
CheckUserChanged(a, ok, t) ==
    LET a1 == GetVolume(a, ok)
        current == a1.cached
    IN  IF Abs(current - a1.last_set) > NoiseThreshold
        THEN <<[a1 EXCEPT !.ust = t, !.usv = current, !.last_set = current],
               TRUE>>
        ELSE <<a1, FALSE>>

----------------------------------------------------------------------------
(* VolumeLimiter: the pure parts of _run.  c is the record of tunables.    *)

(* 10 ** (leeway_db / 20), in thousandths, for the slider positions used *)
LeewayFactor(db) ==
    CASE db = 0 -> 1000
      [] db = 3 -> 1413
      [] db = 6 -> 1995
      [] db = 12 -> 3981

(* _update_release_rate with the quotient inverted *)
ReleaseRate_Inverted(release_time) ==
    IF release_time > 0 THEN <<release_time, FullScale>>
    ELSE <<FastReleaseRate, 1>>

(* _update_release_rate: thousandths per ms as <<numerator, denominator>> *)
ReleaseRate(release_time) ==
    IF release_time > 0 THEN <<FullScale, release_time>>
    ELSE <<FastReleaseRate, 1>>

(* potential_output, in millionths *)
PotentialOutput(raw, orig) == raw * orig

(* soft_threshold, in millionths *)
SoftThreshold(c) == c.volume_cap * LeewayFactor(c.leeway_db)

(* the threshold test *)
OverThreshold(raw, orig, c) ==
    /\ PotentialOutput(raw, orig) > c.volume_cap * FullScale
    /\ raw > NegligiblePeak

(* the attack test with a strict comparison *)
AttackElapsed_Strict(tot, c) == tot > c.attack_time

(* the attack test *)
AttackElapsed(tot, c) == tot >= c.attack_time

(* leeway_ratio = 1.0 ? *)
FullLimiting(raw, orig, c) == PotentialOutput(raw, orig) >= SoftThreshold(c)

(* ramp_progress as <<n, d>>, the fraction n/d *)
RampProgress(tot, c) ==
    LET tsa == tot - c.attack_time
    IN  IF c.dampening_speed > InstantDampening
        THEN (IF tsa >= c.dampening_speed THEN <<1, 1>>
              ELSE <<tsa, c.dampening_speed>>)
        ELSE <<1, 1>>

(* sustained_factor ramping by dampening instead of dampening - 1.0 *)
SustainedFactor_FullGain(tot, c) ==
    LET rp == RampProgress(tot, c)
        sf == <<FullScale * rp[2] + c.dampening * rp[1], FullScale * rp[2]>>
        lo == IF sf[1] <= c.dampening * rp[2]
              THEN sf ELSE <<c.dampening, FullScale>>
    IN  IF lo[1] >= lo[2] THEN lo ELSE <<1, 1>>

(* sustained_factor as <<n, d>>, the fraction n/d *)
SustainedFactor(tot, c) ==
    LET rp == RampProgress(tot, c)
        \* 1.0 + (dampening - 1.0) * ramp_progress
        sf == <<FullScale * rp[2] + (c.dampening - FullScale) * rp[1],
                FullScale * rp[2]>>
        \* min(dampening, sf)
        lo == IF sf[1] <= c.dampening * rp[2]
              THEN sf ELSE <<c.dampening, FullScale>>
    IN  \* max(1.0, lo)
        IF lo[1] >= lo[2] THEN lo ELSE <<1, 1>>

(* the blend with its two weights exchanged *)
BlendedTarget_Swapped(raw, orig, c) ==
    IF FullLimiting(raw, orig, c)
    THEN (c.volume_cap * FullScale) \div raw
    ELSE LET x == PotentialOutput(raw, orig) - c.volume_cap * FullScale
             span == SoftThreshold(c) - c.volume_cap * FullScale
             qr == MulDivQR(x, x, span)
         IN  ((c.volume_cap * FullScale) \div raw) + (qr[1] \div raw)

(* original_volume * (1 - leeway_ratio) + base_target * leeway_ratio *)
BlendedTarget(raw, orig, c) ==
    IF FullLimiting(raw, orig, c)
    THEN (c.volume_cap * FullScale) \div raw
    ELSE LET x == PotentialOutput(raw, orig) - c.volume_cap * FullScale
             span == SoftThreshold(c) - c.volume_cap * FullScale
             qr == MulDivQR(x, x, span)
             exact == qr[2] = 0 /\ qr[1] % raw = 0
         IN  orig - ((qr[1] \div raw) + (IF exact THEN 0 ELSE 1))

(* the target taken as volume_cap itself, not volume_cap / raw_peak *)
TargetVolume_CapOnly(raw, orig, tot, c) ==
    LET sf == SustainedFactor(tot, c)
        t == (c.volume_cap * sf[2]) \div sf[1]
    IN  Max(MinTarget, Min(FullScale, t))

(* the target multiplied by sustained_factor where line 357 divides *)
TargetVolume_Multiplied(raw, orig, tot, c) ==
    LET sf == SustainedFactor(tot, c)
        t == (BlendedTarget(raw, orig, c) * sf[1]) \div sf[2]
    IN  Max(MinTarget, Min(FullScale, t))

(* target_volume, after the division and the clamp *)
TargetVolume(raw, orig, tot, c) ==
    LET sf == SustainedFactor(tot, c)
        t == (BlendedTarget(raw, orig, c) * sf[2]) \div sf[1]
    IN  Max(MinTarget, Min(FullScale, t))

(* the release step with the ramp's sign inverted *)
ReleaseStep_Down(current, target, rate, dt) ==
    IF current < target - ReleaseEpsilon
    THEN <<Max(current - ((rate[1] * dt) \div rate[2]), 0), FALSE>>
    ELSE <<target, TRUE>>

(* the release step clamped at full volume, not at the target *)
ReleaseStep_ToFull(current, target, rate, dt) ==
    IF current < target - ReleaseEpsilon
    THEN <<Min(current + ((rate[1] * dt) \div rate[2]), FullScale), FALSE>>
    ELSE <<target, TRUE>>

(* the release step without the min(new_vol, target) of line 376 *)
ReleaseStep_Unclamped(current, target, rate, dt) ==
    IF current < target - ReleaseEpsilon
    THEN <<current + ((rate[1] * dt) \div rate[2]), FALSE>>
    ELSE <<target, TRUE>>

(* the release step: <<new volume, done>> *)
ReleaseStep(current, target, rate, dt) ==
    IF current < target - ReleaseEpsilon
    THEN <<Min(current + ((rate[1] * dt) \div rate[2]), target), FALSE>>
    ELSE <<target, TRUE>>

(* the hold test passing already at time_since_loud = hold_time *)
HoldElapsed_Inclusive(t, lot, c) == t - lot >= c.hold_time

(* line 368: time_since_loud > hold_time *)
HoldElapsed(t, lot, c) == t - lot > c.hold_time

(* the cooldown gate *)
InCooldown(a, t, c) == a.ust # NoTime /\ (t - a.ust) < c.user_cooldown

----------------------------------------------------------------------------
(* The engaged over-threshold path of _run read by read.  The tunables are *)
(* attributes of the limiter that the GUI thread assigns (_on_*_change)    *)
(* while the limiter thread reads them, each use being a fresh read.  rd   *)
(* gives, for the i-th read of a tunable on this path, the record of       *)
(* tunables as it stood at that read.                                      *)

(* the source line of each read, in program order: leeway_db; volume_cap   *)
(* for soft_threshold; volume_cap in the threshold test; attack_time in    *)
(* the attack test; volume_cap twice in leeway_ratio; attack_time in       *)
(* time_since_attack; dampening_speed in the test and in the quotient;     *)
(* dampening in the ramp and in the clamp; volume_cap in base_target       *)
ReadLines == <<315, 316, 318, 323, 335, 335, 339, 340, 342, 346, 347, 351>>

(* the reads of an iteration during which c0 is replaced by c1 after the   *)
(* first pos reads *)
Reads(c0, c1, pos) ==
    [i \in 1..Len(ReadLines) |-> IF i <= pos THEN c0 ELSE c1]

(* the values each tunable was read as *)
Seen(rd) ==
    [volume_cap |-> {rd[i].volume_cap : i \in {2, 3, 5, 6, 12}},
     attack_time |-> {rd[i].attack_time : i \in {4, 7}},
     dampening_speed |-> {rd[i].dampening_speed : i \in {8, 9}},
     dampening |-> {rd[i].dampening : i \in {10, 11}}]

ReadSoftThreshold(rd) == rd[2].volume_cap * LeewayFactor(rd[1].leeway_db)

ReadOverThreshold(raw, orig, rd) ==
    /\ PotentialOutput(raw, orig) > rd[3].volume_cap * FullScale
    /\ raw > NegligiblePeak

ReadAttackElapsed(tot, rd) == tot >= rd[4].attack_time

ReadFullLimiting(raw, orig, rd) ==
    PotentialOutput(raw, orig) >= ReadSoftThreshold(rd)

(* soft_threshold - self.volume_cap of line 335 *)
ReadSpan(rd) == ReadSoftThreshold(rd) - rd[6].volume_cap * FullScale

(* line 340 *)
ReadRamps(rd) == rd[8].dampening_speed > InstantDampening

(* a division of the path raises ZeroDivisionError *)
ReadCrashes(raw, orig, rd) ==
    \/ ~ReadFullLimiting(raw, orig, rd) /\ ReadSpan(rd) = 0
    \/ ReadRamps(rd) /\ rd[9].dampening_speed = 0

(* the divisors the path divides by, in program order, up to the one that  *)
(* raises: the leeway span (335), dampening_speed (342), raw_peak (351),   *)
(* sustained_factor (357, sf = <<n, d>> with d > 0)                        *)
Divisors(raw, orig, rd, sf) ==
    LET d1 == IF ReadFullLimiting(raw, orig, rd) THEN <<>>
              ELSE <<ReadSpan(rd)>>
        d2 == IF ReadRamps(rd) THEN <<rd[9].dampening_speed>> ELSE <<>>
    IN  IF d1 = <<0>> THEN d1
        ELSE IF d2 = <<0>> THEN d1 \o d2
        ELSE d1 \o d2 \o <<raw, sf[1]>>

(* ramp_progress as <<n, d>> with d > 0; n < 0 if attack_time grew between *)
(* its two reads                                                           *)
ReadRampProgress(tot, rd) ==
    LET tsa == tot - rd[7].attack_time
    IN  IF ReadRamps(rd)
        THEN (IF tsa >= rd[9].dampening_speed THEN <<1, 1>>
              ELSE <<tsa, rd[9].dampening_speed>>)
        ELSE <<1, 1>>

ReadSustainedFactor(tot, rd) ==
    LET rp == ReadRampProgress(tot, rd)
        sf == <<FullScale * rp[2] + (rd[10].dampening - FullScale) * rp[1],
                FullScale * rp[2]>>
        lo == IF sf[1] <= rd[11].dampening * rp[2]
              THEN sf ELSE <<rd[11].dampening, FullScale>>
    IN  IF lo[1] >= lo[2] THEN lo ELSE <<1, 1>>

(* original_volume * (1 - leeway_ratio) + base_target * leeway_ratio, that *)
(* is orig - (x / span) * (y / raw) with x the numerator of leeway_ratio   *)
(* and y / raw = orig - base_target; x, y and span take either sign when   *)
(* volume_cap changes between its reads                                    *)
ReadBlendedTarget(raw, orig, rd) ==
    IF ReadFullLimiting(raw, orig, rd)
    THEN (rd[12].volume_cap * FullScale) \div raw
    ELSE LET x == PotentialOutput(raw, orig) - rd[5].volume_cap * FullScale
             y == PotentialOutput(raw, orig) - rd[12].volume_cap * FullScale
             span == ReadSpan(rd)
             qr == MulDivQR(Abs(x), Abs(y), Abs(span))
             exact == qr[2] = 0 /\ qr[1] % raw = 0
             up == ((x < 0) # (y < 0)) # (span < 0)
         IN  IF up THEN orig + (qr[1] \div raw)
             ELSE orig - ((qr[1] \div raw) + (IF exact THEN 0 ELSE 1))

ReadTargetVolume(raw, orig, tot, rd) ==
    LET sf == ReadSustainedFactor(tot, rd)
        b == ReadBlendedTarget(raw, orig, rd)
    IN  IF b <= 0 THEN MinTarget
        ELSE IF b >= FullScale * ((sf[1] \div sf[2]) + 1) THEN FullScale
        ELSE Max(MinTarget, Min(FullScale, (b * sf[2]) \div sf[1]))

----------------------------------------------------------------------------
(* Inputs *)

MeterValues == {0, 500}                    \* what GetPeakValue() returns
UserVolumes == {1000, 500}                 \* volumes set outside the program
Nudge == 8                                 \* a small move of the volume slider

(* the device calls of one loop iteration, in program order *)
Calls == {"vol1", "peak1", "vol2", "set", "vol3", "peak2", "vol4"}

(* Settings.load: what the settings file read at startup holds.  The times *)
(* are short ones, all below MaxAge.                                       *)
Settings(cap, attack, leeway, damp, speed) ==
    [volume_cap |-> cap, attack_time |-> attack, release_time |-> 50,
     hold_time |-> 20, user_cooldown |-> 40, leeway_db |-> leeway,
     dampening |-> damp, dampening_speed |-> speed]

Loaded == Settings(200, 60, 0, 1000, 0)

(* the slider positions used *)
CapValues == {200, 2}
AttackValues == {50, 60}
LeewayValues == {0, 6}
DampeningValues == {1000, 2000}
DampeningSpeedValues == {0, 20}
TunableVolumes == {1000, 300, 10, 5}

----------------------------------------------------------------------------
(* State *)

Audio == [dev |-> dev_volume, cached |-> cached_volume,
          last_set |-> last_set_volume, ust |-> user_set_time,
          usv |-> user_set_volume]

(* store the wrapper's state, d ms before the next iteration *)
SetAudio(a, d) ==
    /\ dev_volume' = a.dev
    /\ cached_volume' = a.cached
    /\ last_set_volume' = a.last_set
    /\ user_set_time' = Age(a.ust, d)
    /\ user_set_volume' = a.usv

NoWrite == <<>>
NoReads == [volume_cap |-> {}, attack_time |-> {}, dampening_speed |-> {},
            dampening |-> {}]
NoFactor == <<0, 1>>

(* what an iteration did: its path, whether it detected a user change, its *)
(* dt and raw_peak, the levels it passed to set_volume (at most one),      *)
(* whether the device took it, its sustained_factor, is_limiting as the    *)
(* iteration found it, and the device calls that raised during it          *)
Event(kind, override, dt, raw, write, ok, sf) ==
    [kind |-> kind, override |-> override, dt |-> dt, raw |-> raw,
     write |-> write, ok |-> ok, sf |-> sf, was |-> is_limiting,
     failed |-> {}, seen |-> NoReads, den |-> <<>>]

(* the event e of an engaged iteration that read the tunables as rd and    *)
(* divided by den                                                          *)
Reading(e, rd, den) == [e EXCEPT !.seen = Seen(rd), !.den = den]

(* the event e of an iteration during which the calls F raised *)
Failing(e, F) == [e EXCEPT !.failed = F]

Quiet(kind, override, dt) ==
    Event(kind, override, dt, 0, NoWrite, FALSE, NoFactor)

(* the state the limiter keeps between iterations, and what the wrapper    *)
(* last wrote                                                              *)
ControllerState ==
    [orig |-> original_volume, lim |-> is_limiting,
     tot |-> time_over_threshold, lot |-> last_over_threshold_time,
     written |-> last_set_volume]

(* snap is <<ControllerState>> as _toggle found it when it disabled the    *)
(* limiter, its timestamp aged with the clock; it is NoSnap once the user  *)
(* has moved the volume or an iteration of the enabled limiter has run,    *)
(* and throughout where _toggle keeps no history (Toggle)                  *)
NoSnap == <<>>

(* AudioController.__init__, VolumeLimiter.__init__, start() *)
InitWith(c, v) ==
    /\ dev_volume = v
    /\ cached_volume = v
    /\ last_set_volume = v
    /\ user_set_time = NoTime
    /\ user_set_volume = v
    /\ is_running = TRUE
    /\ stop = FALSE
    /\ pc = "loop"
    /\ last_time = now
    /\ original_volume = v
    /\ is_limiting = FALSE
    /\ last_over_threshold_time = 0 - MaxAge
    /\ time_over_threshold = 0
    /\ ui_peak = 0
    /\ ui_volume = v
    /\ cfg = c
    /\ release_rate = ReleaseRate(c.release_time)
    /\ ev = Quiet("init", FALSE, 0)
    /\ quiet_time = 0 - MaxAge
    /\ snap = NoSnap

Init == \E v \in UserVolumes : InitWith(Loaded, v)

----------------------------------------------------------------------------
(* The limiter thread: one action per path through one iteration of the    *)
(* while loop of _run; the locals of the iteration are bound one by one    *)
(* (\E x \in {e}).  F is the set of device calls that raise in this        *)
(* iteration, m what the meter returns during it.  time.time() inside      *)
(* check_user_changed reads the same millisecond as the iteration's now.   *)

(* the loop condition without the test of the stop event *)
Looping_IgnoresStop == pc = "loop"

(* line 282: while not self._stop.is_set() *)
Looping == pc = "loop" /\ ~stop

Meter(F, call, m) == IF call \in F THEN Failed ELSE m

(* line 320, saturating *)
Accumulate(tot, dt) == Min(tot + dt, MaxAge)

(* the accumulator carried over an under-threshold iteration *)
ResetAccumulator_Keeps(tot) == tot

(* line 363: self.time_over_threshold = 0.0 *)
ResetAccumulator(tot) == 0

(* the override check without the reset of is_limiting *)
AfterDetect_KeepsLimiting(F) ==
    LET d == CheckUserChanged(Audio, "vol1" \notin F, now)
    IN  [a |-> d[1], changed |-> d[2],
         orig |-> IF d[2] THEN d[1].usv ELSE original_volume,
         lim |-> is_limiting,
         tot |-> IF d[2] THEN 0 ELSE time_over_threshold]

(* lines 292-297: the override check and its reset *)
AfterDetect(F) ==
    LET d == CheckUserChanged(Audio, "vol1" \notin F, now)
    IN  [a |-> d[1], changed |-> d[2],
         orig |-> IF d[2] THEN d[1].usv ELSE original_volume,
         lim |-> IF d[2] THEN FALSE ELSE is_limiting,
         tot |-> IF d[2] THEN 0 ELSE time_over_threshold]

(* the timestamps an enabled iteration leaves, seen after its sleep.       *)
(* quiet_time is the start of the last iteration during which the signal   *)
(* was under the threshold: sampled so by the program (quiet), or silent   *)
(* (m = 0) while the program was disabled.                                 *)
Sleep(lot, quiet) ==
    /\ last_time' = Age(now, TickSleep)
    /\ last_over_threshold_time' = Age(lot, TickSleep)
    /\ quiet_time' = Age(IF quiet THEN now ELSE quiet_time, TickSleep)
    /\ snap' = NoSnap

(* the loop condition fails: the thread ends *)
LoopExit ==
    /\ pc = "loop" /\ stop
    /\ pc' = "done"
    /\ ev' = Quiet("exit", FALSE, 0)
    /\ UNCHANGED <<dev_volume, audio_vars, is_running, stop, last_time,
                   state_vars, ui_vars, cfg, release_rate, quiet_time,
                   snap>>

(* the reset with time_over_threshold left as it was *)
PausedEffect_KeepsTime ==
    [orig |-> original_volume, lim |-> is_limiting,
     tot |-> time_over_threshold]

(* the reset extended to is_limiting *)
PausedEffect_DropsLimiting ==
    [orig |-> original_volume, lim |-> FALSE, tot |-> 0]

(* line 285: what the disabled branch leaves of the limiter's state *)
PausedEffect ==
    [orig |-> original_volume, lim |-> is_limiting, tot |-> 0]

(* lines 283-286: disabled; the reset follows the sleep *)
PausedTick(m) ==
    /\ Looping /\ ~is_running
    /\ original_volume' = PausedEffect.orig
    /\ is_limiting' = PausedEffect.lim
    /\ time_over_threshold' = PausedEffect.tot
    /\ last_time' = Age(last_time, PausedSleep)
    /\ last_over_threshold_time' = Age(last_over_threshold_time, PausedSleep)
    /\ user_set_time' = Age(user_set_time, PausedSleep)
    /\ quiet_time' = Age(IF m = 0 THEN now ELSE quiet_time, PausedSleep)
    /\ ev' = Quiet("paused", FALSE, 0)
    /\ snap' = IF snap = NoSnap THEN NoSnap
               ELSE <<[snap[1] EXCEPT !.lot = Age(@, PausedSleep)]>>
    /\ UNCHANGED <<dev_volume, cached_volume, last_set_volume,
                   user_set_volume, is_running, stop, pc, ui_vars, cfg,
                   release_rate>>

(* lines 288-302: enabled, inside the user cooldown *)
CooldownTick(F) ==
    /\ Looping /\ is_running
    /\ \E p \in {AfterDetect(F)} :
           /\ InCooldown(p.a, now, cfg)
           /\ SetAudio(p.a, TickSleep)
           /\ original_volume' = p.orig
           /\ is_limiting' = p.lim
           /\ time_over_threshold' = p.tot
           /\ ev' = Failing(Quiet("cooldown", p.changed, now - last_time),
                            F \cap {"vol1"})
    /\ Sleep(last_over_threshold_time, FALSE)
    /\ UNCHANGED <<is_running, stop, pc, ui_vars, cfg, release_rate>>

(* lines 288-360 and 383-388: enabled, signal over threshold *)
OverTick(F, m) ==
    /\ Looping /\ is_running
    /\ \E p \in {AfterDetect(F)}, dt \in {now - last_time} :
       \E raw \in {GetRawPeak(Meter(F, "peak1", m), p.a.cached)},
          a2 \in {GetVolume(p.a, "vol2" \notin F)},
          tot \in {Accumulate(p.tot, dt)} :
           /\ ~InCooldown(p.a, now, cfg)
           /\ OverThreshold(raw, p.orig, cfg)
           /\ \E engaged \in {AttackElapsed(tot, cfg)},
                 target \in {TargetVolume(raw, p.orig, tot, cfg)} :
              \E a3 \in {IF engaged
                         THEN SetVolume(a2, target, "set" \notin F)
                         ELSE a2} :
              \E a4 \in {GetVolume(a3, "vol4" \notin F)} :
                  /\ SetAudio(a4, TickSleep)
                  /\ original_volume' = p.orig
                  /\ time_over_threshold' = tot
                  /\ is_limiting' = (p.lim \/ engaged)
                  /\ ui_peak' = GetRawPeak(Meter(F, "peak2", m), a3.cached)
                  /\ ui_volume' = a4.cached
                  /\ ev' = Failing(IF engaged
                                   THEN Reading(
                                          Event("limit", p.changed, dt, raw,
                                                <<target>>, "set" \notin F,
                                                SustainedFactor(tot, cfg)),
                                          Reads(cfg, cfg, 0),
                                          Divisors(raw, p.orig,
                                                   Reads(cfg, cfg, 0),
                                                   SustainedFactor(tot, cfg)))
                                   ELSE Event("attack", p.changed, dt, raw,
                                              NoWrite, FALSE, NoFactor),
                                   F)
    /\ Sleep(now, FALSE)
    /\ UNCHANGED <<is_running, stop, pc, cfg, release_rate>>

(* lines 288-317, 361-388: enabled, signal under threshold *)
UnderTick(F, m) ==
    /\ Looping /\ is_running
    /\ \E p \in {AfterDetect(F)}, dt \in {now - last_time} :
       \E raw \in {GetRawPeak(Meter(F, "peak1", m), p.a.cached)},
          a2 \in {GetVolume(p.a, "vol2" \notin F)},
          releasing \in {p.lim /\ HoldElapsed(now,
                                                last_over_threshold_time,
                                                cfg)} :
           /\ ~InCooldown(p.a, now, cfg)
           /\ ~OverThreshold(raw, p.orig, cfg)
           /\ \E a2r \in {GetVolume(a2, "vol3" \notin F)} :
              \E rs \in {ReleaseStep(a2r.cached, p.orig, release_rate,
                                     dt)} :
              \E a3 \in {IF releasing
                         THEN SetVolume(a2r, rs[1], "set" \notin F)
                         ELSE a2} :
              \E a4 \in {GetVolume(a3, "vol4" \notin F)} :
                  /\ SetAudio(a4, TickSleep)
                  /\ original_volume' = p.orig
                  /\ time_over_threshold' = ResetAccumulator(p.tot)
                  /\ is_limiting' = (p.lim /\ ~(releasing /\ rs[2]))
                  /\ ui_peak' = GetRawPeak(Meter(F, "peak2", m), a3.cached)
                  /\ ui_volume' = a4.cached
                  /\ ev' = Failing(IF releasing
                                   THEN Event(IF rs[2] THEN "restore"
                                              ELSE "release", p.changed, dt,
                                              raw, <<rs[1]>>, "set" \notin F,
                                              NoFactor)
                                   ELSE Event(IF p.lim THEN "hold"
                                              ELSE "idle", p.changed, dt,
                                              raw, NoWrite, FALSE, NoFactor),
                                   F)
    /\ Sleep(last_over_threshold_time, TRUE)
    /\ UNCHANGED <<is_running, stop, pc, cfg, release_rate>>

(* lines 288-360 and 383-388: enabled, signal over threshold, attack       *)
(* elapsed, while a slider callback of the GUI thread replaces the         *)
(* tunables c0 = cfg by c1 between the pos-th read of a tunable and the    *)
(* next.  A ZeroDivisionError is caught nowhere in _run: it ends the       *)
(* thread, after lines 320-326 and before any write.                       *)
RacingTick(m, c1, pos) ==
    /\ Looping /\ is_running
    /\ c1 # cfg /\ pos \in 1..(Len(ReadLines) - 1)
    /\ cfg' = c1
    /\ \E p \in {AfterDetect({})}, dt \in {now - last_time},
          rd \in {Reads(cfg, c1, pos)} :
       \E raw \in {GetRawPeak(m, p.a.cached)},
          a2 \in {GetVolume(p.a, TRUE)},
          tot \in {Accumulate(p.tot, dt)} :
           /\ ~InCooldown(p.a, now, cfg)
           /\ ReadOverThreshold(raw, p.orig, rd)
           /\ ReadAttackElapsed(tot, rd)
           /\ original_volume' = p.orig
           /\ time_over_threshold' = tot
           /\ is_limiting' = TRUE
           /\ IF ReadCrashes(raw, p.orig, rd)
              THEN /\ SetAudio(a2, 0)
                   /\ pc' = "crashed"
                   /\ last_time' = now
                   /\ last_over_threshold_time' = now
                   /\ UNCHANGED <<ui_vars, quiet_time>>
                   /\ snap' = NoSnap
                   /\ ev' = Reading(Event("crash", p.changed, dt, raw,
                                          NoWrite, FALSE, NoFactor),
                                    rd, Divisors(raw, p.orig, rd, NoFactor))
              ELSE \E sf \in {ReadSustainedFactor(tot, rd)},
                      target \in {ReadTargetVolume(raw, p.orig, tot, rd)} :
                   \E a3 \in {SetVolume(a2, target, TRUE)} :
                       /\ SetAudio(a3, TickSleep)
                       /\ pc' = pc
                       /\ Sleep(now, FALSE)
                       /\ ui_peak' = GetRawPeak(m, a3.cached)
                       /\ ui_volume' = a3.cached
                       /\ ev' = Reading(Event("limit", p.changed, dt, raw,
                                              <<target>>, TRUE, sf),
                                        rd, Divisors(raw, p.orig, rd, sf))
    /\ UNCHANGED <<is_running, stop, release_rate>>

----------------------------------------------------------------------------
(* The GUI thread and the user.  They run while the limiter thread sleeps. *)

GuiEvent ==
    /\ pc = "loop" /\ ~stop
    /\ UNCHANGED <<dev_volume, audio_vars, stop, pc, last_time, state_vars,
                   ui_vars, ev, quiet_time>>

(* TameGUI._toggle *)
ToggleRunning ==
    /\ GuiEvent
    /\ is_running' = ~is_running
    /\ UNCHANGED <<cfg, release_rate>>

Toggle == ToggleRunning /\ UNCHANGED snap

(* TameGUI._toggle, with the state it found when disabling kept in snap *)
ToggleSnap ==
    /\ ToggleRunning
    /\ snap' = IF is_running THEN <<ControllerState>> ELSE snap

(* the slider callbacks TameGUI._on_*_change *)
SetTunable(c) ==
    /\ GuiEvent
    /\ c # cfg
    /\ cfg' = c
    /\ UNCHANGED <<is_running, release_rate, snap>>

OnCapChange(v) == SetTunable([cfg EXCEPT !.volume_cap = v])
OnAttackChange(v) == SetTunable([cfg EXCEPT !.attack_time = v])
OnLeewayChange(v) == SetTunable([cfg EXCEPT !.leeway_db = v])
OnDampeningChange(v) == SetTunable([cfg EXCEPT !.dampening = v])
OnDampeningSpeedChange(v) == SetTunable([cfg EXCEPT !.dampening_speed = v])

(* TameGUI._do_exit -> VolumeLimiter.stop *)
DoExit ==
    /\ pc = "loop" /\ ~stop
    /\ stop' = TRUE
    /\ UNCHANGED <<dev_volume, audio_vars, is_running, pc, last_time,
                   state_vars, ui_vars, cfg, release_rate, ev, quiet_time,
                   snap>>

(* the user moves the system volume outside the program *)
UserSetsVolume(v) ==
    /\ pc = "loop" /\ ~stop
    /\ v \in 0..FullScale /\ v # dev_volume
    /\ dev_volume' = v
    /\ snap' = NoSnap
    /\ UNCHANGED <<audio_vars, is_running, stop, pc, last_time, state_vars,
                   ui_vars, cfg, release_rate, ev, quiet_time>>

(* the volumes the user picks: a few fixed ones, and one step above what   *)
(* the limiter last wrote                                                  *)
UserTargets == UserVolumes \cup {last_set_volume + Nudge}

----------------------------------------------------------------------------
(* The program with a device whose calls all succeed *)

Next ==
    \/ LoopExit
    \/ \E m \in MeterValues : PausedTick(m)
    \/ CooldownTick({})
    \/ \E m \in MeterValues : OverTick({}, m)
    \/ \E m \in MeterValues : UnderTick({}, m)
    \/ Toggle
    \/ DoExit
    \/ \E v \in UserTargets : UserSetsVolume(v)

Spec == Init /\ [][Next]_vars

(* The program while nobody shuts it down.  The limiter thread is a        *)
(* running thread that only sleeps for a bounded time: its loop keeps      *)
(* iterating.                                                              *)
LoopStep ==
    \/ \E m \in MeterValues : PausedTick(m)
    \/ CooldownTick({})
    \/ \E m \in MeterValues : OverTick({}, m)
    \/ \E m \in MeterValues : UnderTick({}, m)

FairNext ==
    \/ \E m \in MeterValues : PausedTick(m)
    \/ CooldownTick({})
    \/ \E m \in MeterValues : OverTick({}, m)
    \/ \E m \in MeterValues : UnderTick({}, m)
    \/ Toggle
    \/ \E v \in UserTargets : UserSetsVolume(v)

FairSpec == Init /\ [][FairNext]_vars /\ WF_vars(LoopStep)

(* The whole program, shutdown included.  The limiter thread reaches the   *)
(* loop condition again after a sleep of at most 0.05 s, so once the stop  *)
(* event is set the exit is taken.                                         *)
SpecStop == Init /\ [][Next]_vars /\ WF_vars(LoopExit)

----------------------------------------------------------------------------
(* The enabled program started with each setting of the limiting tunables *)

TunablesInit ==
    \E cap \in CapValues, attack \in AttackValues, leeway \in LeewayValues,
       damp \in DampeningValues, speed \in DampeningSpeedValues,
       v \in TunableVolumes :
        InitWith(Settings(cap, attack, leeway, damp, speed), v)

TunablesNext ==
    \/ CooldownTick({})
    \/ \E m \in MeterValues : OverTick({}, m)
    \/ \E m \in MeterValues : UnderTick({}, m)
    \/ \E v \in TunableVolumes : UserSetsVolume(v)

SpecTunables == TunablesInit /\ [][TunablesNext]_vars

----------------------------------------------------------------------------
(* The limiter with the state found at each disabling kept in snap: the    *)
(* loop, the enable switch and the user, without the exit.                 *)

ToggleNext ==
    \/ \E m \in MeterValues : PausedTick(m)
    \/ CooldownTick({})
    \/ \E m \in MeterValues : OverTick({}, m)
    \/ \E m \in MeterValues : UnderTick({}, m)
    \/ ToggleSnap
    \/ \E v \in UserTargets : UserSetsVolume(v)

SpecToggle == Init /\ [][ToggleNext]_vars

----------------------------------------------------------------------------
(* The enabled limiter on a device whose calls may raise: in each          *)
(* iteration one of a few sets of the device calls fails.                  *)

PeakReads == {"peak1", "peak2"}
VolumeReads == {"vol1", "vol2", "vol3", "vol4"}

(* nothing fails; the meter fails for one read or for the whole iteration; *)
(* the volume fails for one read or for the whole iteration; the write     *)
(* fails                                                                   *)
FaultSets == {{}, {"peak1"}, PeakReads, {"vol1"}, VolumeReads, {"set"}}

(* the volumes the user picks here: the fixed ones and one step above them *)
FaultVolumes == UserVolumes \cup {v + Nudge : v \in UserVolumes}

FaultsNext ==
    \/ \E F \in FaultSets : CooldownTick(F)
    \/ \E F \in FaultSets, m \in MeterValues : OverTick(F, m)
    \/ \E F \in FaultSets, m \in MeterValues : UnderTick(F, m)
    \/ \E v \in FaultVolumes : UserSetsVolume(v)

SpecFaults == Init /\ [][FaultsNext]_vars

----------------------------------------------------------------------------
(* The limiter alone with the device: nobody else moves the system volume; *)
(* the device calls may raise and the limiter may be paused and resumed.   *)

AloneNext ==
    \/ \E F \in FaultSets, m \in MeterValues : OverTick(F, m)
    \/ \E F \in FaultSets, m \in MeterValues : UnderTick(F, m)
    \/ \E m \in MeterValues : PausedTick(m)
    \/ Toggle

SpecAlone == Init /\ [][AloneNext]_vars

----------------------------------------------------------------------------
(* The enabled limiter, left alone by the user, on an endpoint whose       *)
(* SetMasterVolumeLevelScalar() raises in some iterations.  From 0.603 the *)
(* release ramp (0.2, 0.6) stops within 0.005 of original_volume.          *)

WriteVolumes == {1000, 603}

WriteFaults == {{}, {"set"}}

WritesInit == \E v \in WriteVolumes : InitWith(Loaded, v)

WritesNext ==
    \/ \E F \in WriteFaults, m \in MeterValues : OverTick(F, m)
    \/ \E F \in WriteFaults, m \in MeterValues : UnderTick(F, m)

SpecWrites == WritesInit /\ [][WritesNext]_vars

----------------------------------------------------------------------------
(* The enabled limiter while the user moves the sliders: a callback lands  *)
(* inside an engaged iteration, between two reads of the tunables.         *)

RaceCaps == {200, 400}
RaceVolumes == {1000, 300}

(* where the callback lands: after the read of volume_cap for              *)
(* soft_threshold (316), after the threshold test (318), inside line 335,  *)
(* after line 335, between the test and the quotient of dampening_speed    *)
(* (340, 342), between the two reads of dampening (346, 347)               *)
RacePoints == {2, 3, 5, 6, 8, 10}

(* what one slider callback can leave of the tunables c: _on_cap_change,   *)
(* _on_dampening_change, _on_dampening_speed_change (the tunables read     *)
(* more than once on the path and dividing or divided by)                  *)
SliderWrites(c) ==
    ({[c EXCEPT !.volume_cap = v] : v \in RaceCaps}
     \cup {[c EXCEPT !.dampening = v] : v \in DampeningValues}
     \cup {[c EXCEPT !.dampening_speed = v] : v \in DampeningSpeedValues})
    \ {c}

RaceInit ==
    \E leeway \in LeewayValues, speed \in DampeningSpeedValues,
       v \in RaceVolumes :
        InitWith(Settings(200, 60, leeway, 2000, speed), v)

RaceNext ==
    \/ \E m \in MeterValues : OverTick({}, m)
    \/ \E m \in MeterValues : UnderTick({}, m)
    \/ \E m \in MeterValues, c1 \in SliderWrites(cfg), pos \in RacePoints :
          RacingTick(m, c1, pos)

SpecRace == RaceInit /\ [][RaceNext]_vars

----------------------------------------------------------------------------
(* The target computation of lines 328-358 on its own.  A state holds the  *)
(* inputs of an engaged iteration (raw_peak in ev.raw, original_volume,    *)
(* time_over_threshold, the tunables) and the target computed from them    *)
(* (ev.write); FnLouder computes the target again for a larger             *)
(* original_volume, that is a larger potential_output at the same          *)
(* raw_peak, everything else the same.                                     *)

FnPeaks == {250, 500, 750, 1000}
FnVolumes == {50 * k : k \in 1..20}
FnTimes == {60, 70, 80}
FnLeeways == {0, 3, 6}

FnTarget(raw, orig, tot, c) ==
    Event("limit", FALSE, 0, raw, <<TargetVolume(raw, orig, tot, c)>>, TRUE,
          SustainedFactor(tot, c))

FnInit ==
    \E raw \in FnPeaks, orig \in FnVolumes, tot \in FnTimes,
       leeway \in FnLeeways :
        /\ OverThreshold(raw, orig, Settings(200, 60, leeway, 2000, 20))
        /\ cfg = Settings(200, 60, leeway, 2000, 20)
        /\ release_rate = ReleaseRate(cfg.release_time)
        /\ dev_volume = orig
        /\ cached_volume = orig
        /\ last_set_volume = orig
        /\ user_set_time = NoTime
        /\ user_set_volume = orig
        /\ is_running = TRUE
        /\ stop = FALSE
        /\ pc = "fn"
        /\ last_time = now
        /\ original_volume = orig
        /\ is_limiting = TRUE
        /\ last_over_threshold_time = now
        /\ time_over_threshold = tot
        /\ ui_peak = raw
        /\ ui_volume = orig
        /\ ev = FnTarget(raw, orig, tot, cfg)
        /\ quiet_time = 0 - MaxAge
        /\ snap = NoSnap

FnLouder ==
    /\ pc = "fn"
    /\ \E orig \in FnVolumes :
           /\ orig > original_volume
           /\ original_volume' = orig
           /\ ev' = FnTarget(ev.raw, orig, time_over_threshold, cfg)
    /\ UNCHANGED <<dev_volume, audio_vars, is_running, stop, pc, last_time,
                   is_limiting, last_over_threshold_time,
                   time_over_threshold, ui_vars, cfg, release_rate,
                   quiet_time, snap>>

SpecFn == FnInit /\ [][FnLouder]_vars

----------------------------------------------------------------------------
(* Steps of the limiter thread, as action formulas *)

EnabledTick ==
    \/ CooldownTick({})
    \/ \E m \in MeterValues : OverTick({}, m)
    \/ \E m \in MeterValues : UnderTick({}, m)

AnyTick == (\E m \in MeterValues : PausedTick(m)) \/ EnabledTick

(* the device volume is more than 0.01 away from the last written volume *)
UserMoved == Abs(dev_volume - last_set_volume) > NoiseThreshold

(* user_cooldown has passed since the last detected override *)
CooldownOver ==
    user_set_time = NoTime \/ now - user_set_time >= cfg.user_cooldown

----------------------------------------------------------------------------
----------------------------------------------------------------------------
(* C2: in every run, also one in which the controller is disabled and      *)
(* re-enabled or leaves a cooldown, an iteration writes a limiting volume  *)
(* (one below original_volume) only when at least attack_time has passed   *)
(* since the signal was last under the threshold: a peak over threshold    *)
(* for less than attack_time triggers no such write.                       *)
C2_AttackDelay ==
    [][(EnabledTick /\ ev'.kind = "limit"
            /\ ev'.write[1] < original_volume') =>
        now - quiet_time >= cfg.attack_time]_vars

(* C2 witness: a limiting write after the whole attack delay *)
C2_Witness ==
    /\ ev.kind = "limit" /\ ev.write[1] < original_volume
    /\ ev.dt = TickSleep /\ time_over_threshold >= cfg.attack_time
    /\ dev_volume = ev.write[1]

----------------------------------------------------------------------------
(* over-threshold iterations of the enabled controller, outside cooldown *)
OverStep == \E m \in MeterValues : OverTick({}, m)

(* under-threshold iterations of the enabled controller, outside cooldown *)
UnderStep == \E m \in MeterValues : UnderTick({}, m)

(* C3 (as amended): when the controller is enabled and not in cooldown, an *)
(* over-threshold iteration at which time_over_threshold has reached       *)
(* attack_time sets is_limiting and writes a volume to the device; the     *)
(* written volume is strictly below original_volume whenever               *)
(* original_volume is above the 0.01 floor of the target, and is never     *)
(* above original_volume, for every setting of volume_cap, leeway_db and   *)
(* dampening used.                                                         *)
C3_Engagement ==
    [][(OverStep /\ time_over_threshold' >= cfg.attack_time) =>
        /\ is_limiting'
        /\ ev'.kind = "limit"
        /\ dev_volume' = ev'.write[1]
        /\ ev'.write[1] <= Max(original_volume', MinTarget)
        /\ original_volume' > MinTarget =>
               ev'.write[1] < original_volume']_vars

(* C3 witness: an engagement inside the leeway zone with dampening 2.0 *)
C3_Witness ==
    /\ ev.kind = "limit" /\ is_limiting
    /\ cfg.leeway_db > 0 /\ cfg.dampening > FullScale
    /\ ~FullLimiting(ev.raw, original_volume, cfg)
    /\ dev_volume = ev.write[1] /\ dev_volume < original_volume

(* C3 as written: every engagement writes a volume strictly below          *)
(* original_volume.                                                        *)
C3_Original ==
    [][(OverStep /\ time_over_threshold' >= cfg.attack_time) =>
        /\ is_limiting'
        /\ ev'.kind = "limit"
        /\ ev'.write[1] < original_volume']_vars

----------------------------------------------------------------------------
(* the paths of an under-threshold iteration *)
UnderKinds == {"idle", "hold", "release", "restore"}

(* C4 (as amended): on every iteration with raw_peak * original_volume <=  *)
(* volume_cap, a controller that is not limiting stays so and writes       *)
(* nothing; a limiting one writes nothing during the hold, then writes     *)
(* volumes that are never below the device volume, except that the last    *)
(* write is original_volume itself, at most 0.01 below the device volume;  *)
(* is_limiting is cleared by that last write only, however many            *)
(* iterations the hold and the release take.                               *)
C4_Passivity ==
    [][UnderStep =>
        /\ ev'.kind \in UnderKinds
        /\ ~is_limiting =>
               ~is_limiting' /\ ev'.write = NoWrite
                             /\ dev_volume' = dev_volume
        /\ ev'.kind = "hold" =>
               is_limiting' /\ ev'.write = NoWrite
                            /\ dev_volume' = dev_volume
        /\ ev'.kind = "release" =>
               is_limiting' /\ ev'.write[1] >= dev_volume
        /\ ev'.kind = "restore" =>
               /\ ~is_limiting'
               /\ ev'.write[1] = original_volume'
               /\ ev'.write[1] >= dev_volume - NoiseThreshold]_vars

(* C4 witness: after the hold, a release step has raised the volume of a   *)
(* controller that is still limiting                                       *)
C4_Witness ==
    /\ ev.kind = "release" /\ ev.was /\ is_limiting
    /\ time_over_threshold = 0
    /\ dev_volume = ev.write[1] /\ dev_volume < original_volume

(* C4 as written: an under-threshold iteration never writes a volume below *)
(* the device volume, and from the second consecutive under-threshold      *)
(* iteration on is_limiting is false.                                      *)
C4_Original ==
    [][UnderStep =>
        /\ ev'.write # NoWrite => ev'.write[1] >= dev_volume
        /\ ev.kind \in UnderKinds => ~is_limiting']_vars

----------------------------------------------------------------------------
(* releaseRate * dt on the grid, from the release_time tunable *)
ReleaseAdvance(dt) ==
    IF cfg.release_time > 0 THEN (FullScale * dt) \div cfg.release_time
    ELSE FastReleaseRate * dt

(* the release is under way: limiting, under threshold, enabled *)
Releasing ==
    /\ is_running
    /\ is_limiting /\ ev.kind \in {"hold", "release"}

(* the release is complete *)
Restored ==
    /\ ev.kind = "restore" /\ ~is_limiting
    /\ dev_volume = original_volume

(* the controller was disabled, the user overrode the volume, or the       *)
(* signal went over threshold again                                        *)
ReleaseBroken ==
    \/ ~is_running
    \/ ev.kind \in {"paused", "cooldown", "attack", "limit"}

(* C5 (as amended): once the controller is limiting, the signal is under   *)
(* threshold and hold_time has elapsed, every iteration but the last       *)
(* writes the device volume advanced by release_rate * dt and capped at    *)
(* original_volume, never less than the device volume; the last one finds  *)
(* the device volume within 0.005 below (or, after a user nudge, up to     *)
(* 0.01 above) original_volume, writes original_volume and clears          *)
(* is_limiting; and if the controller stays enabled, no override occurs    *)
(* and the signal stays under threshold, that last iteration comes.        *)
C5_Release ==
    /\ [][UnderStep =>
            /\ ev'.kind = "release" =>
                   /\ ev'.write[1] = Min(dev_volume + ReleaseAdvance(ev'.dt),
                                         original_volume')
                   /\ ev'.write[1] >= dev_volume
                   /\ dev_volume' = ev'.write[1]
            /\ ev'.kind = "restore" =>
                   /\ dev_volume >= original_volume' - ReleaseEpsilon
                   /\ dev_volume <= original_volume' + NoiseThreshold
                   /\ ev'.write[1] = original_volume'
                   /\ dev_volume' = original_volume'
                   /\ ~is_limiting']_vars
    /\ (Releasing ~> (Restored \/ ReleaseBroken))

(* C5 witness: the release has brought the volume back *)
C5_Witness ==
    /\ Restored /\ ev.was /\ is_running
    /\ ev.dt = TickSleep /\ ui_volume = original_volume

(* C5 as written: every iteration of the release writes a volume greater   *)
(* than or equal to the previous device volume.                            *)
C5_Original ==
    [][(UnderStep /\ ev'.kind \in {"release", "restore"}) =>
        ev'.write[1] >= dev_volume]_vars

----------------------------------------------------------------------------
(* iterations that compute a target: over threshold and past the attack *)
LimitStep == OverStep /\ ev'.kind = "limit"

(* the fraction f = <<n, d>> equals dampening / 1.0 *)
IsDampening(f) == f[1] * FullScale = cfg.dampening * f[2]

(* C6 (as amended): on every engaged iteration sustained_factor lies in    *)
(* [1.0, dampening]; it equals dampening when dampening_speed <= 0.001 or  *)
(* time_over_threshold >= attack_time + dampening_speed, on that iteration *)
(* and on every later one while the signal stays over threshold; before    *)
(* that it is 1.0 + (dampening - 1.0) * (time_over_threshold -             *)
(* attack_time) / dampening_speed, which on the first engaged iteration is *)
(* 1.0 only if time_over_threshold is exactly attack_time.                 *)
C6_Dampening ==
    [][LimitStep =>
        /\ ev'.sf[1] >= ev'.sf[2]
        /\ ev'.sf[1] * FullScale <= cfg.dampening * ev'.sf[2]
        /\ cfg.dampening_speed <= InstantDampening => IsDampening(ev'.sf)
        /\ time_over_threshold' >= cfg.attack_time + cfg.dampening_speed =>
               IsDampening(ev'.sf)
        /\ (/\ cfg.dampening_speed > InstantDampening
            /\ time_over_threshold' < cfg.attack_time + cfg.dampening_speed)
           => ev'.sf[1] * (FullScale * cfg.dampening_speed)
                = ev'.sf[2] * (FullScale * cfg.dampening_speed
                               + (cfg.dampening - FullScale)
                                 * (time_over_threshold' - cfg.attack_time))
        /\ (time_over_threshold >= cfg.attack_time + cfg.dampening_speed
            /\ ev.kind = "limit" /\ IsDampening(ev.sf))
           => IsDampening(ev'.sf)]_vars

(* C6 witness: an engaged iteration half way up the ramp *)
C6_Witness ==
    /\ ev.kind = "limit"
    /\ cfg.dampening_speed > InstantDampening
    /\ ev.sf[1] > ev.sf[2]
    /\ ev.sf[1] * FullScale < cfg.dampening * ev.sf[2]
    /\ time_over_threshold > cfg.attack_time

(* C6 as written: sustained_factor is 1.0 on the iteration that engages    *)
(* (when dampening_speed > 0.001).                                         *)
C6_Original ==
    [][(LimitStep /\ ~ev'.was
            /\ cfg.dampening_speed > InstantDampening) =>
        ev'.sf[1] = ev'.sf[2]]_vars

----------------------------------------------------------------------------
(* potential_output is at or above the middle of the leeway zone *)
UpperZone(raw, orig, c) ==
    2 * (PotentialOutput(raw, orig) - c.volume_cap * FullScale)
        >= SoftThreshold(c) - c.volume_cap * FullScale

(* C7 (as amended): for fixed raw_peak, volume_cap, leeway_db and          *)
(* sustained_factor, the target of an engaged iteration is a non-          *)
(* increasing function of potential_output over the range                  *)
(* potential_output >= (volume_cap + soft_threshold) / 2: the upper half   *)
(* of the leeway zone and everything beyond soft_threshold.                *)
C7_LeewayMonotone ==
    [][(FnLouder /\ UpperZone(ev.raw, original_volume, cfg)) =>
        /\ ev'.raw = ev.raw /\ ev'.sf = ev.sf
        /\ PotentialOutput(ev'.raw, original_volume')
             > PotentialOutput(ev.raw, original_volume)
        /\ ev'.write[1] <= ev.write[1]]_vars

(* C7 witness: a target computed inside the upper half of the leeway zone  *)
(* for a raised original_volume                                            *)
C7_Witness ==
    /\ pc = "fn" /\ original_volume > dev_volume
    /\ UpperZone(ev.raw, dev_volume, cfg)
    /\ ~FullLimiting(ev.raw, original_volume, cfg)
    /\ ev.write[1] < original_volume

(* C7 as written: over the whole range potential_output > volume_cap,      *)
(* the leeway zone included, a larger potential_output at the same         *)
(* raw_peak never yields a larger target.                                  *)
C7_Original ==
    [][FnLouder => ev'.write[1] <= ev.write[1]]_vars

----------------------------------------------------------------------------
(* the configuration of the worked example: volume_cap 0.2, attack_time    *)
(* 0.05 s, leeway_db 0, dampening 1.0                                      *)
ExampleCfg ==
    /\ cfg.volume_cap = 200 /\ cfg.attack_time = 50
    /\ cfg.leeway_db = 0 /\ cfg.dampening = FullScale

(* an over-threshold iteration of the worked example: original_volume 1.0  *)
(* and raw_peak 0.5                                                        *)
ExampleStep ==
    OverStep /\ ExampleCfg /\ original_volume' = FullScale /\ ev'.raw = 500

(* C8: in the worked example an iteration whose accumulated time over      *)
(* threshold is still below 0.05 s writes no volume; one at which it has   *)
(* reached 0.05 s sets is_limiting, limits fully (leeway_ratio 1.0) with   *)
(* sustained_factor 1.0, has base target 0.4 and writes a volume within    *)
(* 0.01 of 0.4.                                                            *)
C8_Example ==
    [][ExampleStep =>
        /\ time_over_threshold' < 50 =>
              /\ ev'.write = NoWrite /\ ev'.kind # "limit"
              /\ dev_volume' = dev_volume
        /\ time_over_threshold' >= 50 =>
              /\ is_limiting' /\ ev'.kind = "limit"
              /\ FullLimiting(ev'.raw, original_volume', cfg)
              /\ ev'.sf[1] = ev'.sf[2]
              /\ BlendedTarget(ev'.raw, original_volume', cfg) = 400
              /\ Abs(ev'.write[1] - 400) <= NoiseThreshold
              /\ dev_volume' = ev'.write[1]]_vars

(* C8 witness: the iteration of the worked example that engages *)
C8_Witness ==
    /\ ExampleCfg /\ original_volume = FullScale /\ ev.raw = 500
    /\ ev.kind = "limit" /\ ~ev.was /\ is_limiting
    /\ time_over_threshold >= 50 /\ time_over_threshold - ev.dt < 50
    /\ dev_volume = 400

----------------------------------------------------------------------------
(* the limiter was disabled and has been enabled again; since it was       *)
(* disabled the user has not moved the volume and no iteration of the      *)
(* enabled limiter has run                                                 *)
RoundTrip == snap # NoSnap /\ is_running

(* C9 (as amended): disabling the controller and enabling it again, with   *)
(* no user volume change in between, leaves original_volume, is_limiting,  *)
(* last_over_threshold_time and the last written volume exactly as they    *)
(* were before disabling, from every controller state; time_over_threshold *)
(* is as it was only if no loop iteration ran while the controller was     *)
(* disabled, otherwise it is 0.                                            *)
C9_DisableEnable ==
    RoundTrip =>
        /\ original_volume = snap[1].orig
        /\ is_limiting = snap[1].lim
        /\ last_over_threshold_time = snap[1].lot
        /\ last_set_volume = snap[1].written
        /\ time_over_threshold =
               IF ev.kind = "paused" THEN 0 ELSE snap[1].tot

(* C9 witness: a limiter disabled while limiting with accumulated time,    *)
(* enabled again after an iteration of the disabled loop                   *)
C9_Witness ==
    /\ RoundTrip /\ ev.kind = "paused"
    /\ snap[1].lim /\ is_limiting
    /\ snap[1].tot > 0 /\ time_over_threshold = 0

(* C9 as written: the round trip leaves all five fields, the accumulated   *)
(* time over threshold included, exactly as they were before disabling.    *)
C9_Original ==
    RoundTrip => ControllerState = snap[1]

----------------------------------------------------------------------------
(* an iteration of the disabled limiter *)
PausedStep == \E m \in MeterValues : PausedTick(m)

(* C10: an iteration of the disabled controller, whatever the signal       *)
(* level, samples nothing and runs no threshold test, attack or release:   *)
(* it resets time_over_threshold to 0, writes no volume, and leaves        *)
(* original_volume, is_limiting and last_over_threshold_time (the same     *)
(* instant, 0.05 s further back) as they were.                             *)
C10_PauseFrame ==
    [][PausedStep =>
        /\ time_over_threshold' = 0
        /\ ev'.kind = "paused" /\ ev'.write = NoWrite /\ ev'.raw = 0
        /\ ~ev'.override
        /\ dev_volume' = dev_volume
        /\ last_set_volume' = last_set_volume
        /\ cached_volume' = cached_volume
        /\ user_set_volume' = user_set_volume
        /\ user_set_time' = Age(user_set_time, PausedSleep)
        /\ original_volume' = original_volume
        /\ is_limiting' = is_limiting
        /\ last_over_threshold_time'
             = Age(last_over_threshold_time, PausedSleep)
        /\ ui_peak' = ui_peak /\ ui_volume' = ui_volume]_vars

(* C10 witness: a disabled iteration that found the limiter limiting with  *)
(* the device volume moved by the user and left all of it alone            *)
C10_Witness ==
    /\ ev.kind = "paused" /\ ev.was /\ is_limiting
    /\ ~is_running /\ time_over_threshold = 0
    /\ UserMoved

----------------------------------------------------------------------------
(* an iteration during which the meter reads m *)
TickWith(m) == PausedTick(m) \/ OverTick({}, m) \/ UnderTick({}, m)

(* C11: every iteration of the loop, whichever branch it takes, publishes  *)
(* the telemetry afresh: ui_volume is the device volume and ui_peak the    *)
(* raw peak of the signal at that iteration.                               *)
C11_Telemetry ==
    [][/\ AnyTick => ui_volume' = dev_volume'
       /\ \A m \in MeterValues :
              TickWith(m) => ui_peak' = GetRawPeak(m, cached_volume')]_vars

(* C11 witness: a cooldown iteration has run and the published volume is   *)
(* not the device volume                                                   *)
C11_Witness ==
    /\ ev.kind = "cooldown" /\ ev.override
    /\ ui_volume # dev_volume /\ cached_volume = dev_volume

----------------------------------------------------------------------------
(* C12: the stop event is tested at the top of every iteration, whichever  *)
(* branch the iteration would take: once it is set no iteration starts, no *)
(* volume is written and the limiter's state is left alone; the only step  *)
(* of the thread is the exit from the loop, and the thread does exit.      *)
C12_CooperativeStop ==
    /\ [][stop =>
            /\ ~AnyTick
            /\ ev'.write = NoWrite
            /\ UNCHANGED <<dev_volume, audio_vars, state_vars, ui_vars>>
            /\ pc' # pc => (pc = "loop" /\ pc' = "done")]_vars
    /\ [](pc = "done" => stop)
    /\ (stop ~> pc = "done")

(* C12 witness: the thread has ended after a stop that arrived while the   *)
(* limiter was limiting                                                    *)
C12_Witness ==
    /\ pc = "done" /\ stop /\ ev.kind = "exit"
    /\ is_limiting /\ dev_volume < original_volume

----------------------------------------------------------------------------
(* an iteration past the cooldown gate whose first meter read raised *)
PeakFailedStep ==
    \E F \in FaultSets, m \in MeterValues :
        "peak1" \in F /\ (OverTick(F, m) \/ UnderTick(F, m))

(* an iteration whose first volume read raised *)
VolumeFailedStep ==
    \E F \in FaultSets :
        /\ "vol1" \in F
        /\ \/ CooldownTick(F)
           \/ \E m \in MeterValues : OverTick(F, m) \/ UnderTick(F, m)

(* C13 (as amended): an iteration whose peak read fails uses peak 0 and    *)
(* one whose volume read fails uses the last known (cached) volume.  On an *)
(* iteration with a failed peak read is_limiting never goes from false to  *)
(* true, time_over_threshold is not increased (it becomes 0) and no        *)
(* limiting write is issued: the iteration takes the under-threshold       *)
(* branch, whose only writes are the release ramp and the final restore of *)
(* original_volume; with the volume reads working neither lowers the       *)
(* device volume by more than 0.01.                                        *)
C13_FailedReads ==
    [][/\ PeakFailedStep =>
            /\ ev'.raw = 0
            /\ ev'.kind \in {"idle", "hold", "release", "restore"}
            /\ is_limiting' => is_limiting
            /\ time_over_threshold' = 0
            /\ time_over_threshold' <= time_over_threshold
            /\ (ev'.write # NoWrite /\ ev'.failed \subseteq PeakReads) =>
                  /\ ev'.write[1] >= dev_volume - NoiseThreshold
                  /\ ev'.kind = "release" => ev'.write[1] >= dev_volume
       /\ VolumeFailedStep =>
            /\ ev'.override
                 <=> Abs(cached_volume - last_set_volume) > NoiseThreshold
            /\ ev'.override => original_volume' = cached_volume]_vars

(* C13 witness: the peak read failed while the limiter was limiting, and   *)
(* the iteration held                                                      *)
C13_Witness ==
    /\ "peak1" \in ev.failed /\ ev.raw = 0
    /\ ev.kind = "hold" /\ ev.was /\ is_limiting
    /\ time_over_threshold = 0 /\ dev_volume < original_volume

(* C13 as written: on an iteration with a failed peak read no volume write *)
(* lowering the volume is issued.                                          *)
C13_Original ==
    [][PeakFailedStep =>
        /\ is_limiting' => is_limiting
        /\ time_over_threshold' <= time_over_threshold
        /\ ev'.write # NoWrite => ev'.write[1] >= dev_volume]_vars

----------------------------------------------------------------------------
(* C14: on no iteration does the limiter divide by a zero or negative      *)
(* value (the leeway span, dampening_speed, raw_peak, sustained_factor,    *)
(* release_time), for every configuration and also when the GUI thread     *)
(* changes a tunable between two reads of it inside one iteration; no      *)
(* division ends the thread.                                               *)
C14_GuardedDenominators ==
    /\ \A i \in 1..Len(ev.den) : ev.den[i] > 0
    /\ release_rate[2] > 0
    /\ pc # "crashed"

(* C14 witness: dampening_speed passed the test of line 340 and was 0 when *)
(* line 342 divided by it; the limiter thread has ended                    *)
C14_Witness ==
    /\ pc = "crashed" /\ ev.kind = "crash"
    /\ ev.seen.dampening_speed = {0, 20}
    /\ ev.den[Len(ev.den)] = 0
    /\ is_limiting /\ ev.write = NoWrite

----------------------------------------------------------------------------
(* C16: all the reads of one tunable within a single iteration give the    *)
(* same value, also when the GUI thread writes volume_cap, dampening or    *)
(* dampening_speed in the middle of the iteration.                         *)
C16_ConfigSnapshot ==
    \A f \in DOMAIN ev.seen : Cardinality(ev.seen[f]) <= 1

(* C16 witness: an iteration computed soft_threshold from one volume_cap   *)
(* and the leeway span from another, and wrote the resulting target        *)
C16_Witness ==
    /\ ev.kind = "limit" /\ ev.seen.volume_cap = {200, 400}
    /\ Len(ev.den) > 0 /\ ev.den[1] < 0
    /\ dev_volume = ev.write[1]

----------------------------------------------------------------------------
(* C15: an under-threshold iteration that finds is_limiting set with       *)
(* now - last_over_threshold_time <= hold_time writes no volume and keeps  *)
(* is_limiting; a release or restore write happens only on an iteration    *)
(* with now - last_over_threshold_time > hold_time.                        *)
C15_Hold ==
    [][UnderStep =>
        /\ (is_limiting
              /\ now - last_over_threshold_time <= cfg.hold_time) =>
             /\ ev'.kind = "hold" /\ ev'.write = NoWrite
             /\ is_limiting'
             /\ dev_volume' = dev_volume
             /\ last_set_volume' = last_set_volume
        /\ ev'.kind \in {"release", "restore"} =>
             /\ is_limiting
             /\ now - last_over_threshold_time > cfg.hold_time
        /\ ev'.write # NoWrite => ev'.kind \in {"release", "restore"}]_vars

(* C15 witness: an iteration exactly hold_time after the last loud one     *)
(* held the limited volume                                                 *)
C15_Witness ==
    /\ ev.kind = "hold" /\ ev.was /\ is_limiting /\ ev.write = NoWrite
    /\ last_over_threshold_time = 0 - (cfg.hold_time + TickSleep)
    /\ dev_volume < original_volume

----------------------------------------------------------------------------
(* C17: every over-threshold iteration of the enabled limiter, outside the *)
(* cooldown, that finds is_limiting set computes the target volume and     *)
(* writes it to the device, also right after an under-threshold dip        *)
(* shorter than hold_time that left is_limiting set.                       *)
C17_RecomputeEveryTick ==
    [][(OverStep /\ is_limiting) =>
        /\ ev'.kind = "limit"
        /\ ev'.write
             = <<TargetVolume(ev'.raw, original_volume',
                              time_over_threshold', cfg)>>
        /\ dev_volume' = ev'.write[1]]_vars

(* C17 witness: an over-threshold iteration found is_limiting set after a  *)
(* dip and wrote nothing: time_over_threshold had started again from 0     *)
C17_Witness ==
    /\ ev.kind = "attack" /\ ev.was /\ is_limiting
    /\ ev.write = NoWrite /\ ev.dt = TickSleep
    /\ time_over_threshold = TickSleep
    /\ time_over_threshold < cfg.attack_time

----------------------------------------------------------------------------
(* the time that passed since the start of the immediately preceding loop  *)
(* iteration: the sleep of that iteration, 0.05 s on the disabled branch   *)
(* (line 284) and 0.02 s on every other (line 388)                         *)
SincePrevious == IF ev.kind = "paused" THEN PausedSleep ELSE TickSleep

(* C18: on every iteration that runs the algorithm (over or under          *)
(* threshold, enabled, outside cooldown) and has a preceding iteration,    *)
(* the dt it adds to time_over_threshold and uses for the release step is  *)
(* the time since that immediately preceding iteration, also when that     *)
(* iteration was a disabled one or a cooldown one.                         *)
C18_DtSincePreviousTick ==
    [][((OverStep \/ UnderStep) /\ ev.kind # "init") =>
        ev'.dt = SincePrevious]_vars

(* C18 case: an iteration of the algorithm that follows one enabled and    *)
(* one disabled iteration and uses the time of both as its dt              *)
C18_Witness ==
    /\ ev.kind \in {"attack", "limit", "release"}
    /\ ev.dt = TickSleep + PausedSleep
    /\ ev.dt > PausedSleep

----------------------------------------------------------------------------
(* C19: every iteration that samples the signal under threshold            *)
(* (raw_peak * original_volume <= volume_cap or raw_peak <= 0.001) leaves  *)
(* time_over_threshold at 0; the over-threshold iteration that follows an  *)
(* under-threshold one therefore starts the accumulator from its own dt    *)
(* alone; and a controller that was accumulating without having engaged    *)
(* is idle after the under-threshold iteration, which writes no volume.    *)
C19_AccumulatorReset ==
    [][/\ UnderStep =>
           /\ ~OverThreshold(ev'.raw, original_volume', cfg)
           /\ time_over_threshold' = 0
           /\ (ev.kind = "attack" /\ ~is_limiting) =>
                  /\ ev'.kind = "idle" /\ ~is_limiting'
                  /\ ev'.write = NoWrite
                  /\ dev_volume' = dev_volume
                  /\ last_set_volume' = last_set_volume
       /\ (OverStep /\ ev.kind \in UnderKinds) =>
              time_over_threshold' = ev'.dt]_vars

(* C19 case: the signal was over threshold in the preceding iteration,     *)
(* with the attack delay running and the limiter not engaged, and this     *)
(* iteration found it under threshold                                      *)
C19_Witness ==
    /\ ev.kind = "idle" /\ ~ev.was /\ ~is_limiting
    /\ last_over_threshold_time = 0 - 2 * TickSleep
    /\ time_over_threshold = 0
    /\ ev.write = NoWrite /\ dev_volume = original_volume

----------------------------------------------------------------------------
(* The target as lines 330-358 compute it, one assignment at a time.       *)

(* lines 330-335: leeway_ratio as the fraction <<n, d>>, in millionths *)
LeewayRatio(raw, orig, c) ==
    IF FullLimiting(raw, orig, c) THEN <<1, 1>>
    ELSE <<PotentialOutput(raw, orig) - c.volume_cap * FullScale,
           SoftThreshold(c) - c.volume_cap * FullScale>>

(* line 351: base_target = volume_cap / raw_peak *)
BaseTarget(raw, c) == (c.volume_cap * FullScale) \div raw

(* lines 354-358: the blend, the division by sustained_factor, the clamp *)
StepwiseTarget(raw, orig, tot, c) ==
    LET r == LeewayRatio(raw, orig, c)
        blend == (orig * (r[2] - r[1]) + BaseTarget(raw, c) * r[1])
                     \div r[2]
        sf == SustainedFactor(tot, c)
        t == (blend * sf[2]) \div sf[1]
    IN  Max(MinTarget, Min(FullScale, t))

(* C20: the volume an over-threshold iteration past the attack delay       *)
(* passes to set_volume is                                                 *)
(* (original_volume * (1 - leeway_ratio) + base_target * leeway_ratio)     *)
(* / sustained_factor clamped to [0.01, 1.0] (to the thousandth the model  *)
(* rounds to); the device has that volume when the iteration ends, with no *)
(* intermediate step; and it is the wrapper's last written volume.         *)
C20_LimitWrite ==
    [][LimitStep =>
        /\ Len(ev'.write) = 1
        /\ ev'.write[1] = TargetVolume(ev'.raw, original_volume',
                                       time_over_threshold', cfg)
        /\ Abs(ev'.write[1] - StepwiseTarget(ev'.raw, original_volume',
                                             time_over_threshold', cfg)) <= 1
        /\ ev'.write[1] >= MinTarget /\ ev'.write[1] <= FullScale
        /\ dev_volume' = ev'.write[1]
        /\ last_set_volume' = ev'.write[1]
        /\ cached_volume' = ev'.write[1]]_vars

(* C20 case: a write inside the leeway zone with the sustained factor      *)
(* above 1, strictly between the clamp's ends, on the device and recorded  *)
C20_Witness ==
    /\ ev.kind = "limit" /\ ev.ok
    /\ ~FullLimiting(ev.raw, original_volume, cfg)
    /\ ev.sf[1] > ev.sf[2]
    /\ ev.write[1] > MinTarget /\ ev.write[1] < original_volume
    /\ dev_volume = ev.write[1] /\ last_set_volume = ev.write[1]

----------------------------------------------------------------------------
(* line 370: what get_volume returns to the release code of the iteration  *)
(* being taken: the device volume, or the cached volume when every         *)
(* GetMasterVolumeLevelScalar() of the iteration up to there raised        *)
ReleaseCurrent ==
    IF {"vol1", "vol2", "vol3"} \subseteq ev'.failed
    THEN cached_volume ELSE dev_volume

(* C21 (as amended): unless the iteration detects a user change,           *)
(* is_limiting goes from true to false only in an under-threshold          *)
(* iteration past the hold in which get_volume returns a volume no more    *)
(* than 0.005 below original_volume (the device volume, or the cached one  *)
(* if the reads fail), and that iteration passes exactly original_volume   *)
(* to set_volume; every release write before it is at most                 *)
(* original_volume.                                                        *)
C21_ReleaseCompletion ==
    [][/\ (is_limiting /\ ~is_limiting' /\ ~ev'.override) =>
              /\ ev'.kind = "restore"
              /\ ReleaseCurrent >= original_volume' - ReleaseEpsilon
              /\ ev'.write = <<original_volume'>>
              /\ ev'.ok => dev_volume' = original_volume'
       /\ (ev'.kind = "release" /\ ev' # ev) =>
              /\ ev'.write[1] <= original_volume'
              /\ ReleaseCurrent < original_volume' - ReleaseEpsilon
              /\ is_limiting']_vars

(* C21 case: the release ended in an iteration whose volume reads all      *)
(* failed, on the cached volume                                            *)
C21_Witness ==
    /\ ev.kind = "restore" /\ ev.was /\ ~is_limiting /\ ~ev.override
    /\ VolumeReads \subseteq ev.failed /\ ev.ok
    /\ ev.write = <<original_volume>> /\ dev_volume = original_volume

(* C21 as written: is_limiting is cleared, without an override, only when  *)
(* the device volume is within 0.005 of original_volume or above it.       *)
C21_Original ==
    [][(is_limiting /\ ~is_limiting' /\ ~ev'.override) =>
          /\ ev'.kind = "restore"
          /\ dev_volume >= original_volume' - ReleaseEpsilon]_vars

----------------------------------------------------------------------------
(* iterations that call set_volume while SetMasterVolumeLevelScalar()      *)
(* raises                                                                  *)
FailedWriteStep ==
    /\ \E m \in MeterValues : OverTick({"set"}, m) \/ UnderTick({"set"}, m)
    /\ ev'.write # NoWrite

(* C22: an iteration whose device write fails goes on to the next          *)
(* iteration, leaves the device, the last written volume and               *)
(* original_volume as they were and is_limiting as it was before the       *)
(* write (true), so that the write is made again by the next iteration     *)
(* and a failed write of the release never leaves is_limiting false with   *)
(* the device volume below original_volume.                                *)
C22_FailedWrite ==
    [][FailedWriteStep =>
        /\ pc' = "loop" /\ ~ev'.ok
        /\ dev_volume' = dev_volume
        /\ last_set_volume' = last_set_volume
        /\ original_volume' = original_volume
        /\ is_limiting'
        /\ ~(~is_limiting' /\ dev_volume' < original_volume')]_vars

(* C22 case: the last write of the release failed and is_limiting is       *)
(* false with the device below original_volume                             *)
C22_Witness ==
    /\ ev.kind = "restore" /\ "set" \in ev.failed /\ ~ev.ok
    /\ ev.was /\ ~is_limiting
    /\ dev_volume < original_volume
    /\ ev.write = <<original_volume>>

----------------------------------------------------------------------------
(* limiting iterations beyond the leeway zone: leeway_ratio = 1.0 *)
FullLimitStep ==
    LimitStep /\ FullLimiting(ev'.raw, original_volume', cfg)

(* C23 (as amended): on every iteration that writes a limiting volume with *)
(* potential_output >= soft_threshold, raw_peak times the written volume   *)
(* is at most volume_cap unless the written volume is the 0.01 floor of    *)
(* the clamp; at the floor the output is raw_peak * 0.01, whatever the     *)
(* cap.                                                                    *)
C23_FullLimiting ==
    [][FullLimitStep =>
        /\ ev'.write[1] >= MinTarget
        /\ \/ ev'.raw * ev'.write[1] <= cfg.volume_cap * FullScale
           \/ /\ ev'.write[1] = MinTarget
              /\ cfg.volume_cap * FullScale < ev'.raw * MinTarget
        /\ dev_volume' = ev'.write[1]]_vars

(* C23 case: full limiting with the sustained factor above 1 has written   *)
(* a volume above the floor that puts the output under the cap             *)
C23_Witness ==
    /\ ev.kind = "limit" /\ ev.ok
    /\ FullLimiting(ev.raw, original_volume, cfg)
    /\ ev.sf[1] > ev.sf[2]
    /\ dev_volume = ev.write[1] /\ dev_volume > MinTarget
    /\ ev.raw * dev_volume <= cfg.volume_cap * FullScale
    /\ ev.raw * dev_volume > 0

(* C23 as written: with leeway_ratio = 1, raw_peak times the written       *)
(* volume is at most volume_cap for every volume_cap in (0, 1].            *)
C23_Original ==
    [][FullLimitStep =>
        ev'.raw * ev'.write[1] <= cfg.volume_cap * FullScale]_vars

----------------------------------------------------------------------------
(* iterations that write a volume: limiting, ramping or restoring *)
WriteStep ==
    \/ LimitStep
    \/ UnderStep /\ ev'.kind \in {"release", "restore"}

(* C24 (as amended): every volume the controller writes, limiting or       *)
(* releasing, is at most original_volume as the writing iteration has it,  *)
(* except that a limiting write is never below the 0.01 floor of the       *)
(* target: with original_volume under 0.01 the limiting write is 0.01.     *)
C24_NeverAboveBaseline ==
    [][WriteStep =>
        \/ ev'.write[1] <= original_volume'
        \/ /\ ev'.kind = "limit"
           /\ ev'.write[1] = MinTarget
           /\ original_volume' < MinTarget]_vars

(* C24 case: a release step that the clamp stopped at original_volume *)
C24_Witness ==
    /\ ev.kind = "release" /\ ev.ok /\ is_limiting
    /\ ev.write = <<original_volume>>
    /\ dev_volume = original_volume
    /\ original_volume < FullScale

(* C24 as written: every written volume is at most original_volume, for    *)
(* every original_volume in [0, 1].                                        *)
C24_Original ==
    [][WriteStep => ev'.write[1] <= original_volume']_vars

----------------------------------------------------------------------------
(* C25: while nothing but the controller changes the device volume, no     *)
(* iteration detects a user change, whatever it writes and whichever       *)
(* device calls fail: user_set_time stays unset (no cooldown),             *)
(* original_volume is never replaced, and the device volume stays within   *)
(* 0.01 of the last written volume.                                        *)
C25_OwnWritesIgnored ==
    [][/\ ~ev'.override
       /\ ev'.kind # "cooldown"
       /\ user_set_time' = NoTime
       /\ original_volume' = original_volume
       /\ Abs(dev_volume' - last_set_volume') <= NoiseThreshold
       /\ Abs(cached_volume' - last_set_volume') <= NoiseThreshold]_vars

(* C25 case: the limiter has lowered the volume and an iteration of the    *)
(* release whose volume reads all failed wrote again, undetected           *)
C25_Witness ==
    /\ ev.kind = "release" /\ VolumeReads \subseteq ev.failed
    /\ ~ev.override /\ user_set_time = NoTime
    /\ dev_volume = ev.write[1] /\ dev_volume < original_volume
    /\ last_set_volume = dev_volume

----------------------------------------------------------------------------
(* C26: with the tunables unchanged, is_limiting implies original_volume > *)
(* volume_cap in every reachable state: is_limiting is set only by an      *)
(* iteration whose raw_peak (at most 1.0) times original_volume exceeds    *)
(* volume_cap, and original_volume changes only in an iteration that       *)
(* detects a user change and leaves is_limiting false.                     *)
C26_LimitingAboveCap ==
    /\ [](is_limiting => original_volume > cfg.volume_cap)
    /\ [][/\ (~is_limiting /\ is_limiting') =>
                 /\ ev'.raw <= FullScale
                 /\ OverThreshold(ev'.raw, original_volume', cfg)
          /\ original_volume' # original_volume =>
                 ev'.override /\ ~is_limiting'
          /\ cfg' = cfg]_vars

(* C26 case: the limiter was engaged when the user moved the volume to or  *)
(* under the cap; the iteration that detected it cleared is_limiting       *)
C26_Witness ==
    /\ ev.override /\ ev.was /\ ~is_limiting
    /\ original_volume <= cfg.volume_cap
    /\ dev_volume = original_volume

----------------------------------------------------------------------------
(* the first enabled iteration after a disabled one, with the device       *)
(* volume more than 0.01 away from the last written volume                 *)
ResumeAfterUserChange == EnabledTick /\ ev.kind = "paused" /\ UserMoved

(* C27: a change of the device volume by more than 0.01 made while the     *)
(* controller was disabled is detected by the first iteration after it is  *)
(* enabled again: that iteration sets original_volume to the device        *)
(* volume, clears is_limiting and time_over_threshold, stamps              *)
(* user_set_time (the cooldown starts), takes the cooldown path and writes *)
(* no volume.                                                              *)
C27_ChangeWhileDisabled ==
    [][ResumeAfterUserChange =>
        /\ ev'.override /\ ev'.kind = "cooldown"
        /\ original_volume' = dev_volume
        /\ user_set_volume' = dev_volume
        /\ ~is_limiting' /\ time_over_threshold' = 0
        /\ user_set_time' = Age(now, TickSleep)
        /\ ev'.write = NoWrite
        /\ dev_volume' = dev_volume
        /\ last_set_volume' = dev_volume]_vars

(* C27 case: the limiter was engaged when it was disabled; the first       *)
(* iteration after the pause has taken the user's volume as the baseline   *)
C27_Witness ==
    /\ ev.kind = "cooldown" /\ ev.override /\ ev.was /\ ~is_limiting
    /\ ev.dt >= TickSleep + PausedSleep
    /\ user_set_time = 0 - TickSleep
    /\ original_volume = dev_volume /\ last_set_volume = dev_volume
    /\ ev.write = NoWrite

====
